---------------------------- MODULE Spec2Model ----------------------------
(***************************************************************************)
(* Model of the HTTP benchmark clients (src/clients/python) and of the     *)
(* orchestrator that runs them and samples container resources             *)
(* (src/orchestrator/run_benchmark.py).                                    *)
(*                                                                         *)
(* client_requests.py and client_httpx.py are the same program up to the   *)
(* concurrency mechanism: threads whose results are merged as each future  *)
(* completes (requests), coroutines whose results are merged after gather   *)
(* returned (httpx).  The variable lib selects the program.                *)
(*                                                                         *)
(* Numbers.  Latencies are floats in the code; here the clock is an        *)
(* integer number of seconds and a latency is (now - start) * 1000.        *)
(* Quotients (error_rate, throughput, averages) are kept as exact          *)
(* fractions [num, den]; floating-point rounding of a quotient is not      *)
(* modelled.  int(N * 0.50), int(N * 0.95), int(N * 0.99) on IEEE doubles  *)
(* equal (N*50) \div 100, (N*95) \div 100, (N*99) \div 100 for every       *)
(* N in 1..2000000 (checked by evaluation), far above the lengths reached  *)
(* here, so the index is computed with integer arithmetic.                 *)
(***************************************************************************)
EXTENDS Integers, Sequences, FiniteSets, TLC

(* ------------------------------ bounds -------------------------------- *)
\* largest CONCURRENCY of the environment
MaxConc == 2
\* largest WARMUP_DURATION / TEST_DURATION of the environment, in seconds
MaxDur == 1
\* seconds after the deadline of a run() within which its last requests return
MaxLate == 1
\* requests one run() may issue (all workers together)
MaxReq == 2
\* readings differ in 0..MaxReading
MaxReading == 1
\* samples the running sampler keeps per target
MaxSamples == 1
\* failed client polls in a row that are followed
MaxStreak == 1
\* longest sample list calculate_averages is applied to on its own
MaxStats == 3
\* get_metrics on its own: longest latency list, largest latency (ms) and
\* largest failure count
MaxLen == 4
MaxLat == 2
MaxFail == 2
\* get_metrics on its own: longest list of distinct descending latencies
MaxRamp == 101

(* ----------------------------- constants ------------------------------ *)
MsPerSecond == 1000
max_consecutive_failures == 30
MinClientSamples == 10

\* an unset environment variable
Unset == "unset"
\* get_metrics returning None, raising, and the tag of a metrics dict
NoMetrics == [kind |-> "None"]
Raised == [kind |-> "ZeroDivisionError"]
\* a result file that does not exist, and a record without resource_usage
NoFile == [exists |-> FALSE]
NoUsage == [present |-> FALSE]
\* a key the shared dict does not hold, and the empty dict
Missing == [set |-> FALSE]
EmptyStats == [client |-> Missing, server |-> Missing]
\* client_container_name = None
NoName == "None"
DefaultUrl == "http://server:8080"
GivenUrl == "http://sut:8080"

Libs == {"requests", "httpx"}
Workers == 1..MaxConc

VARIABLES
    lib,          \* which client program runs
    env,          \* the process environment: SERVER_URL, CONCURRENCY, ...
    now,          \* time.perf_counter() of the client process, in seconds
    cpc,          \* position of the client's main program
    server_url,   \* main: server_url
    concurrency,  \* BenchmarkClient.concurrency
    duration,     \* BenchmarkClient.duration
    latencies,    \* BenchmarkClient.latencies
    failures,     \* BenchmarkClient.failures
    session,      \* the connection layer the client's requests go through
    stop_time,    \* run: stop_time
    wpc,          \* per worker: position in worker()
    wstart,       \* per worker: make_request's start
    wlat,         \* per worker: worker_latencies
    wfail,        \* per worker: worker_failures
    metrics,      \* main: metrics
    result_file,  \* /results/<library>_c<concurrency>.json
    issued,       \* requests begun since the accumulators were last reset
    signals,      \* control requests attempted, in order
    container,    \* the client's container: "none", "up" or "removed"
    opc,          \* position of run_single_test
    mpc,          \* position of the monitor_containers thread
    stop_event,   \* run_single_test: stop_event
    stats_data,   \* the dict shared by run_single_test and monitor_containers
    rebound,      \* run_single_test bound its name stats_data to a new dict
    test_success, \* run_single_test: test_success
    client_container_name,  \* monitor_containers: client_container_name
    client_stats,           \* monitor_containers: client_stats
    server_stats,           \* monitor_containers: server_stats
    consecutive_failures    \* monitor_containers: consecutive_failures

cvars == <<lib, env, now, cpc, server_url, concurrency, duration, latencies,
           failures, session, stop_time, wpc, wstart, wlat, wfail, metrics,
           result_file, issued, signals>>

\* the coordinator's and the sampler's own state
ovars == <<opc, stop_event, rebound, test_success>>
mvars == <<mpc, stats_data, client_container_name, client_stats, server_stats,
           consecutive_failures>>

vars == <<cvars, container, ovars, mvars>>

(* ------------------------------ helpers -------------------------------- *)
RECURSIVE SeqSum(_)
SeqSum(s) == IF s = <<>> THEN 0 ELSE Head(s) + SeqSum(Tail(s))

\* faulty variant: the list is used as it is
sorted_not(s) == s

\* sorted(s): the element s[i] goes to the position given by the number of
\* elements that are smaller, or equal and earlier (the sort is stable).
\* (\o <<>> has TLC compute each function once, as a tuple.)
sorted(s) ==
    LET n == Len(s)
        pos == [i \in 1..n |->
                  1 + Cardinality({j \in 1..n : \/ s[j] < s[i]
                                                \/ s[j] = s[i] /\ j < i})] \o <<>>
        at == [k \in 1..n |-> CHOOSE i \in 1..n : pos[i] = k] \o <<>>
    IN [k \in 1..n |-> s[at[k]]] \o <<>>

\* faulty variant: the index is taken among n - 1 elements
PercentileIdx_short(n, pct) == ((n - 1) * pct) \div 100

\* int(n * 0.pct)
PercentileIdx(n, pct) == (n * pct) \div 100

Frac(n, d) == [num |-> n, den |-> d]

(* --------------------------- BenchmarkClient --------------------------- *)
\* faulty variant: self.latencies.sort() orders the client's own list
sort_in_place(lat) == sorted(lat)

\* sorted(self.latencies) builds a new list: self.latencies after the call
after_sorted(lat) == lat

\* faulty variant: any failure suppresses the metrics
no_metrics_any_failure(lat, fail) == lat = <<>> \/ fail > 0

\* if not self.latencies: return None
no_metrics(lat, fail) == lat = <<>>

\* get_metrics on the client state (lat, fail, conc, dur)
get_metrics(library, lat, fail, conc, dur) ==
    IF no_metrics(lat, fail) THEN NoMetrics
    ELSE IF dur = 0 THEN Raised
    ELSE
      LET total_requests == Len(lat) + fail
          sorted_latencies == sorted(lat)
          p50_idx == PercentileIdx(Len(sorted_latencies), 50)
          p95_idx == PercentileIdx(Len(sorted_latencies), 95)
          p99_idx == PercentileIdx(Len(sorted_latencies), 99)
      IN [ kind |-> "Metrics",
           library |-> library,
           language |-> "python",
           concurrency |-> conc,
           duration |-> dur,
           total_requests |-> total_requests,
           successful_requests |-> Len(lat),
           failed_requests |-> fail,
           error_rate |-> IF total_requests > 0
                            THEN Frac(fail * 100, total_requests)
                            ELSE Frac(0, 1),
           throughput |-> Frac(total_requests, dur),
           latency_avg_ms |-> Frac(SeqSum(lat), Len(lat)),
           \* Python indexes from 0, TLA+ from 1
           latency_p50_ms |-> sorted_latencies[p50_idx + 1],
           latency_p95_ms |-> sorted_latencies[p95_idx + 1],
           latency_p99_ms |-> sorted_latencies[p99_idx + 1],
           latency_min_ms |-> sorted_latencies[1],
           latency_max_ms |-> sorted_latencies[Len(sorted_latencies)] ]

\* faulty variant: the pool is one connection short of the workers
pool_short == concurrency - 1

\* requests: HTTPAdapter(pool_connections=concurrency, pool_maxsize=concurrency);
\* httpx: Limits(max_keepalive_connections=self.concurrency,
\*               max_connections=self.concurrency)
pool_maxsize == concurrency

InRun == cpc \in {"warmup", "test"}
Launched == 1..concurrency

\* the program position after run() returned
AfterRun == IF cpc = "warmup" THEN "reset" ELSE "signal_stop"

\* main: the environment is read and the client is constructed for warmup
main_start ==
    /\ container = "up"
    /\ UNCHANGED <<container, ovars, mvars>>
    /\ cpc = "start"
    /\ server_url' = IF env.SERVER_URL = Unset THEN DefaultUrl ELSE env.SERVER_URL
    /\ concurrency' = env.CONCURRENCY
    /\ duration' = env.WARMUP_DURATION
    /\ latencies' = <<>>
    /\ failures' = 0
    /\ issued' = 0
    \* requests: the Session is made by the constructor; httpx: by each run()
    /\ session' = IF lib = "requests" THEN 1 ELSE 0
    /\ cpc' = "warmup_call"
    /\ UNCHANGED <<lib, env, now, stop_time, wpc, wstart, wlat, wfail,
                   metrics, result_file, signals>>

\* run(): the deadline is computed and the workers are launched
run_start ==
    /\ container = "up"
    /\ UNCHANGED <<container, ovars, mvars>>
    /\ cpc \in {"warmup_call", "test_call"}
    /\ stop_time' = now + duration
    /\ session' = IF lib = "httpx" THEN session + 1 ELSE session
    /\ IF lib = "requests" /\ concurrency <= 0
         THEN \* ThreadPoolExecutor(max_workers=0) raises ValueError
              /\ cpc' = "crashed"
              /\ UNCHANGED <<wpc, wlat, wfail>>
         ELSE /\ cpc' = IF cpc = "warmup_call" THEN "warmup" ELSE "test"
              /\ wpc' = [w \in Workers |-> IF w \in Launched THEN "loop" ELSE "off"]
              /\ wlat' = [w \in Workers |-> <<>>]
              /\ wfail' = [w \in Workers |-> 0]
    /\ UNCHANGED <<lib, env, now, server_url, concurrency, duration, latencies,
                   failures, wstart, metrics, result_file, issued, signals>>

\* faulty variant: while True
clock_ignored(t, deadline) == TRUE

\* faulty variant: the loop goes on while the clock is not past the deadline
clock_not_after(t, deadline) == t <= deadline

\* while time.perf_counter() < stop_time
clock_before(t, deadline) == t < deadline

\* worker(): the loop condition; a request is begun or the worker returns
worker_loop(w) ==
    /\ container = "up"
    /\ UNCHANGED <<container, ovars, mvars>>
    /\ InRun
    /\ wpc[w] = "loop"
    /\ IF clock_before(now, stop_time)
         THEN /\ issued < MaxReq
              /\ wpc' = [wpc EXCEPT ![w] = "request"]
              /\ wstart' = [wstart EXCEPT ![w] = now]
              /\ issued' = issued + 1
         ELSE /\ wpc' = [wpc EXCEPT ![w] = "returned"]
              /\ UNCHANGED <<wstart, issued>>
    /\ UNCHANGED <<lib, env, now, cpc, server_url, concurrency, duration,
                   latencies, failures, session, stop_time, wlat, wfail,
                   metrics, result_file, signals>>

\* faulty variant: the latency of a failed request is kept too
fold_keeps_failed_latency(w, latency, success) ==
    /\ wlat' = [wlat EXCEPT ![w] = Append(@, latency)]
    /\ wfail' = [wfail EXCEPT ![w] = IF success THEN @ ELSE @ + 1]

\* the fold of one request outcome into the worker's accumulators
fold(w, latency, success) ==
    IF success
      THEN /\ wlat' = [wlat EXCEPT ![w] = Append(@, latency)]
           /\ UNCHANGED wfail
      ELSE /\ wfail' = [wfail EXCEPT ![w] = @ + 1]
           /\ UNCHANGED wlat

\* make_request() returns (latency, success) and the worker folds it
make_request(w, success) ==
    /\ container = "up"
    /\ UNCHANGED <<container, ovars, mvars>>
    /\ InRun
    /\ wpc[w] = "request"
    /\ fold(w, (now - wstart[w]) * MsPerSecond, success)
    /\ wpc' = [wpc EXCEPT ![w] = "loop"]
    /\ wstart' = [wstart EXCEPT ![w] = 0]
    /\ UNCHANGED <<lib, env, now, cpc, server_url, concurrency, duration,
                   latencies, failures, session, stop_time, metrics,
                   result_file, issued, signals>>

\* run() returns: its locals (the deadline, the workers and their results) end
run_exit ==
    /\ cpc' = AfterRun
    \* perf_counter() has no defined epoch and only run() reads it, using
    \* differences of its readings: the clock is re-based when run() returns
    /\ now' = 0
    /\ stop_time' = 0
    /\ wpc' = [w \in Workers |-> "off"]
    /\ wlat' = [w \in Workers |-> <<>>]
    /\ wfail' = [w \in Workers |-> 0]

\* faulty variant: a worker's failures are not added
merge_drops_failures(lats, fails) ==
    /\ latencies' = latencies \o lats
    /\ failures' = failures

\* the merge of one worker's result into the client's accumulators
merge(lats, fails) ==
    /\ latencies' = latencies \o lats
    /\ failures' = failures + fails

\* requests: for future in as_completed(futures): merge future.result()
run_as_completed(w) ==
    /\ container = "up"
    /\ UNCHANGED <<container, ovars, mvars>>
    /\ InRun
    /\ lib = "requests"
    /\ wpc[w] = "returned"
    /\ merge(wlat[w], wfail[w])
    /\ wpc' = [wpc EXCEPT ![w] = "merged"]
    /\ UNCHANGED <<lib, env, now, cpc, server_url, concurrency, duration,
                   session, stop_time, wstart, wlat, wfail, metrics,
                   result_file, issued, signals>>

RECURSIVE ConcatAll(_, _)
ConcatAll(f, n) == IF n = 0 THEN <<>> ELSE ConcatAll(f, n - 1) \o f[n]

RECURSIVE SumAll(_, _)
SumAll(f, n) == IF n = 0 THEN 0 ELSE SumAll(f, n - 1) + f[n]

\* httpx: results = await asyncio.gather(*tasks); then every result is merged
run_gather(n) ==
    /\ container = "up"
    /\ UNCHANGED <<container, ovars, mvars>>
    /\ InRun
    /\ lib = "httpx"
    /\ n = concurrency
    /\ \A w \in Launched : wpc[w] = "returned"
    /\ merge(ConcatAll(wlat, n), SumAll(wfail, n))
    /\ run_exit
    /\ UNCHANGED <<lib, env, server_url, concurrency, duration, session,
                   wstart, metrics, result_file, issued, signals>>

\* requests: the as_completed loop and the executor's with-block end
run_return ==
    /\ container = "up"
    /\ UNCHANGED <<container, ovars, mvars>>
    /\ InRun
    /\ lib = "requests"
    /\ \A w \in Launched : wpc[w] = "merged"
    /\ run_exit
    /\ UNCHANGED <<lib, env, server_url, concurrency, duration, latencies,
                   failures, session, wstart, metrics, result_file, issued,
                   signals>>

\* faulty variant: the warmup results stay in the accumulators
reset_keeps_results ==
    /\ latencies' = latencies
    /\ failures' = failures
    /\ duration' = env.TEST_DURATION

\* faulty variant: the client keeps the warmup duration
reset_keeps_duration ==
    /\ latencies' = <<>>
    /\ failures' = 0
    /\ duration' = duration

\* client.latencies = []; client.failures = 0; client.duration = test_duration
reset ==
    /\ latencies' = <<>>
    /\ failures' = 0
    /\ duration' = env.TEST_DURATION

\* main: "Reset metrics but keep connection pool"
main_reset ==
    /\ container = "up"
    /\ UNCHANGED <<container, ovars, mvars>>
    /\ cpc = "reset"
    /\ reset
    /\ issued' = 0
    /\ cpc' = "signal_start"
    /\ UNCHANGED <<lib, env, now, server_url, concurrency, session, stop_time,
                   wpc, wstart, wlat, wfail, metrics, result_file, signals>>

\* faulty variant: no control request is made
signal_not_sent(name, delivered, next) ==
    /\ signals' = signals
    /\ cpc' = next

\* faulty variant: the exception of a failed control request is not caught
signal_raises(name, delivered, next) ==
    /\ signals' = Append(signals, [name |-> name, delivered |-> delivered])
    /\ cpc' = IF delivered THEN next ELSE "crashed"

\* main: POST <server_url>/control/<name>; delivered says whether the POST
\* went through; an exception is swallowed by the bare except
signal(name, delivered, next) ==
    /\ signals' = Append(signals, [name |-> name, delivered |-> delivered])
    /\ cpc' = next

main_signal_start(delivered) ==
    /\ container = "up"
    /\ UNCHANGED <<container, ovars, mvars>>
    /\ cpc = "signal_start"
    /\ signal("start-collection", delivered, "test_call")
    /\ UNCHANGED <<lib, env, now, server_url, concurrency, duration, latencies,
                   failures, session, stop_time, wpc, wstart, wlat, wfail,
                   metrics, result_file, issued>>

main_signal_stop(delivered) ==
    /\ container = "up"
    /\ UNCHANGED <<container, ovars, mvars>>
    /\ cpc = "signal_stop"
    /\ signal("stop-collection", delivered, "summarize")
    /\ UNCHANGED <<lib, env, now, server_url, concurrency, duration, latencies,
                   failures, session, stop_time, wpc, wstart, wlat, wfail,
                   metrics, result_file, issued>>

\* main: metrics = client.get_metrics()
summarize == get_metrics(lib, latencies, failures, concurrency, duration)

main_get_metrics ==
    /\ container = "up"
    /\ UNCHANGED <<container, ovars, mvars>>
    /\ cpc = "summarize"
    /\ metrics' = summarize
    /\ latencies' = after_sorted(latencies)
    /\ cpc' = IF summarize = Raised THEN "crashed" ELSE "save"
    /\ UNCHANGED <<lib, env, now, server_url, concurrency, duration,
                   failures, session, stop_time, wpc, wstart, wlat, wfail,
                   result_file, issued, signals>>

\* main: if metrics: ... json.dump(metrics, f)
save(m) ==
    IF m # NoMetrics
      THEN [exists |-> TRUE, data |-> m, resource_usage |-> NoUsage]
      ELSE result_file

main_save ==
    /\ container = "up"
    /\ UNCHANGED <<container, ovars, mvars>>
    /\ cpc = "save"
    /\ result_file' = save(metrics)
    /\ cpc' = "exit"
    /\ UNCHANGED <<lib, env, now, server_url, concurrency, duration, latencies,
                   failures, session, stop_time, wpc, wstart, wlat, wfail,
                   metrics, issued, signals>>

\* time passes in the client process; only run() reads the clock
Tick ==
    /\ container = "up"
    /\ UNCHANGED <<container, ovars, mvars>>
    /\ InRun
    /\ now < stop_time + MaxLate
    /\ now' = now + 1
    /\ UNCHANGED <<lib, env, cpc, server_url, concurrency, duration, latencies,
                   failures, session, stop_time, wpc, wstart, wlat, wfail,
                   metrics, result_file, issued, signals>>

(* ------------------------- monitor_containers -------------------------- *)
\* the usage readings docker stats may give, already parsed to MB
Reading(l) == [ cpu_percent |-> 10 + 10 * l,
                memory_used_mb |-> 100 + l,
                memory_total_mb |-> 2048,
                memory_percent |-> 5 + 2 * l ]
Readings == {Reading(l) : l \in 0..MaxReading}
\* get_container_stats returning None
NoReading == [none |-> TRUE]
\* what one poll of the running sampler may return
PollReadings == {Reading(0)}
ClientName == "tcc2-rps-benchmark-client-1"

RECURSIVE FieldSum(_, _)
FieldSum(stats_list, field) ==
    IF stats_list = <<>> THEN 0
    ELSE Head(stats_list)[field] + FieldSum(Tail(stats_list), field)

ZeroSummary == [ set |-> TRUE,
                 cpu_percent_avg |-> Frac(0, 1),
                 memory_used_mb_avg |-> Frac(0, 1),
                 memory_total_mb_avg |-> Frac(0, 1),
                 memory_percent_avg |-> Frac(0, 1) ]

\* faulty variant: the empty list is not set apart
no_stats_unguarded(stats_list) == FALSE

\* if not stats_list
no_stats(stats_list) == stats_list = <<>>

\* faulty variant: every field averages cpu_percent
field_average_cpu(stats_list, field) ==
    Frac(FieldSum(stats_list, "cpu_percent"), Len(stats_list))

\* sum(s[field] for s in stats_list) / len(stats_list)
field_average(stats_list, field) ==
    Frac(FieldSum(stats_list, field), Len(stats_list))

calculate_averages(stats_list) ==
    IF no_stats(stats_list) THEN ZeroSummary
    ELSE IF Len(stats_list) = 0 THEN [set |-> TRUE, raised |-> "ZeroDivisionError"]
    ELSE [ set |-> TRUE,
           cpu_percent_avg |-> field_average(stats_list, "cpu_percent"),
           memory_used_mb_avg |-> field_average(stats_list, "memory_used_mb"),
           memory_total_mb_avg |-> field_average(stats_list, "memory_total_mb"),
           memory_percent_avg |-> field_average(stats_list, "memory_percent") ]

\* get_container_name_by_service finds the client's container only while it exists
CanResolve(found) == found => container = "up"
\* get_container_stats gives a reading only for a container that exists
CanRead(stat, stats_list) == stat # NoReading => stat \in PollReadings

\* the polls that are followed: a reading while the target's list is shorter
\* than its cap, a failed client poll while the streak is shorter than its cap
WithinCaps(client_stat, server_stat, client_cap, server_cap, streak_cap) ==
    /\ client_stat # NoReading => Len(client_stats) < client_cap
    /\ server_stat # NoReading => Len(server_stats) < server_cap
    /\ (client_container_name # NoName /\ client_stat = NoReading)
          => consecutive_failures < streak_cap

\* faulty variant: the number of client samples is not looked at
threshold_ignores_samples(fails, stats_list) ==
    fails >= max_consecutive_failures

\* consecutive_failures >= max_consecutive_failures and len(client_stats) > 10
threshold_reached(fails, stats_list) ==
    /\ fails >= max_consecutive_failures
    /\ Len(stats_list) > MinClientSamples

\* the resolution wait: one pass of "while time.time() - wait_start < 30"
monitor_resolve_wait(found) ==
    /\ mpc = "resolve_wait"
    /\ CanResolve(found)
    /\ IF found
         THEN /\ client_container_name' = ClientName
              /\ mpc' = "poll"
         ELSE \* time.sleep(1)
              UNCHANGED <<client_container_name, mpc>>
    /\ UNCHANGED <<cvars, container, ovars, stats_data, client_stats,
                   server_stats, consecutive_failures>>

\* faulty variant: while True, the resolution wait has no bound
monitor_wait_unbounded ==
    /\ mpc = "resolve_wait"
    /\ UNCHANGED vars

\* the 30 seconds of the resolution wait are over
monitor_wait_expired ==
    /\ mpc = "resolve_wait"
    /\ mpc' = "poll"
    /\ UNCHANGED <<cvars, container, ovars, stats_data, client_container_name,
                   client_stats, server_stats, consecutive_failures>>

\* faulty variant: a failed poll empties the list
keep_sample_or_none(stats_list, stat) ==
    IF stat # NoReading THEN Append(stats_list, stat) ELSE <<>>

\* if client_stat: client_stats.append(client_stat), and the same for the server
keep_sample(stats_list, stat) ==
    IF stat # NoReading THEN Append(stats_list, stat) ELSE stats_list

\* one pass of the polling loop: the client's poll (or another resolution
\* attempt), the server's poll, the test of the failure threshold, the sleep
monitor_poll(found, client_stat, server_stat) ==
    /\ mpc = "poll"
    /\ ~stop_event
    /\ IF client_container_name # NoName
         THEN /\ found = FALSE
              /\ client_stat # NoReading => container = "up"
              /\ CanRead(client_stat, client_stats)
              /\ client_stats' = keep_sample(client_stats, client_stat)
              /\ consecutive_failures' = IF client_stat # NoReading
                                           THEN 0
                                           ELSE consecutive_failures + 1
              /\ UNCHANGED client_container_name
         ELSE /\ client_stat = NoReading
              /\ CanResolve(found)
              /\ client_container_name' = IF found THEN ClientName ELSE NoName
              /\ UNCHANGED <<client_stats, consecutive_failures>>
    /\ CanRead(server_stat, server_stats)
    /\ server_stats' = keep_sample(server_stats, server_stat)
    /\ mpc' = IF threshold_reached(consecutive_failures', client_stats')
                THEN "averages"
                ELSE "poll"  \* time.sleep(2)
    /\ UNCHANGED <<cvars, container, ovars, stats_data>>

\* the polling loop ends: stop_event is set
monitor_stopped ==
    /\ mpc = "poll"
    /\ stop_event
    /\ mpc' = "averages"
    /\ UNCHANGED <<cvars, container, ovars, stats_data, client_container_name,
                   client_stats, server_stats, consecutive_failures>>

\* the polling loop ends: time.time() >= end_time
monitor_ceiling ==
    /\ mpc = "poll"
    /\ ~stop_event
    /\ mpc' = "averages"
    /\ UNCHANGED <<cvars, container, ovars, stats_data, client_container_name,
                   client_stats, server_stats, consecutive_failures>>

\* stats_data['client'] = calculate_averages(client_stats)
monitor_publish_client ==
    /\ mpc = "averages"
    /\ stats_data' = [stats_data EXCEPT !.client = calculate_averages(client_stats)]
    /\ mpc' = IF stats_data'.client = [set |-> TRUE, raised |-> "ZeroDivisionError"]
                THEN "raised" ELSE "publish_server"
    /\ UNCHANGED <<cvars, container, ovars, client_container_name,
                   client_stats, server_stats, consecutive_failures>>

\* stats_data['server'] = calculate_averages(server_stats)
monitor_publish_server ==
    /\ mpc = "publish_server"
    /\ stats_data' = [stats_data EXCEPT !.server = calculate_averages(server_stats)]
    /\ mpc' = IF stats_data'.server = [set |-> TRUE, raised |-> "ZeroDivisionError"]
                THEN "raised" ELSE "done"
    /\ UNCHANGED <<cvars, container, ovars, client_container_name,
                   client_stats, server_stats, consecutive_failures>>

(* --------------------------- run_single_test --------------------------- *)
\* start_server_with_retry() and wait_for_server()
orch_start_server(ok) ==
    /\ opc = "start"
    /\ IF ok THEN /\ opc' = "start_monitor"
                  /\ UNCHANGED test_success
             ELSE \* return False, {}
                  /\ opc' = "returned"
                  /\ test_success' = FALSE
    /\ UNCHANGED <<cvars, container, stop_event, rebound, mvars>>

\* monitor_thread.start()
orch_start_monitor ==
    /\ opc = "start_monitor"
    /\ mpc' = "resolve_wait"
    /\ opc' = "compose_up"
    /\ UNCHANGED <<cvars, container, stop_event, rebound, test_success,
                   stats_data, client_container_name, client_stats,
                   server_stats, consecutive_failures>>

\* docker-compose up starts the client's container
orch_compose_up ==
    /\ opc = "compose_up"
    /\ container' = "up"
    /\ opc' = "run_client"
    /\ UNCHANGED <<cvars, stop_event, rebound, test_success, mvars>>

\* the client's process is no longer followed: its memory is not observable;
\* the result file and the control requests it sent remain
abandon ==
    /\ cpc' = "abandoned"
    /\ now' = 0
    /\ server_url' = Unset
    /\ concurrency' = 0
    /\ duration' = 0
    /\ latencies' = <<>>
    /\ failures' = 0
    /\ session' = 0
    /\ stop_time' = 0
    /\ wpc' = [w \in Workers |-> "off"]
    /\ wstart' = [w \in Workers |-> 0]
    /\ wlat' = [w \in Workers |-> <<>>]
    /\ wfail' = [w \in Workers |-> 0]
    /\ metrics' = NoMetrics
    /\ issued' = 0
    /\ UNCHANGED <<lib, env, result_file, signals>>

\* subprocess.run returns once the client ended ("ok"), or raises
\* TimeoutExpired ("timeout") or CalledProcessError ("error").  A killed or
\* failed docker-compose leaves a container whose program is not followed.
client_returns(outcome) ==
    /\ test_success' = (outcome = "ok")
    /\ IF outcome = "ok"
         THEN /\ cpc \in {"exit", "crashed"}
              /\ UNCHANGED cvars
         ELSE /\ cpc \notin {"exit", "crashed"}
              /\ abandon

\* faulty variant: the stop signal and the join follow a normal exit only
orch_run_client_no_finally(outcome) ==
    /\ opc = "run_client"
    /\ client_returns(outcome)
    /\ opc' = IF outcome = "ok" THEN "set_stop" ELSE "update"
    /\ UNCHANGED <<container, stop_event, rebound, mvars>>

orch_run_client(outcome) ==
    /\ opc = "run_client"
    /\ client_returns(outcome)
    /\ opc' = "set_stop"
    /\ UNCHANGED <<container, stop_event, rebound, mvars>>

\* finally: stop_event.set()
orch_set_stop ==
    /\ opc = "set_stop"
    /\ stop_event' = TRUE
    /\ opc' = "join"
    /\ UNCHANGED <<cvars, container, rebound, test_success, mvars>>

\* monitor_thread.join(timeout=30): the thread ended, or the 30 s are over
orch_join(timed_out) ==
    /\ opc = "join"
    /\ timed_out = (mpc \notin {"done", "raised"})
    /\ opc' = "update"
    /\ UNCHANGED <<cvars, container, stop_event, rebound, test_success, mvars>>

ZeroStats == [client |-> ZeroSummary, server |-> ZeroSummary]

\* if result_file.exists(): result_data = json.load(f);
\* if not stats_data: stats_data = {zeros}; result_data['resource_usage'] = stats_data
orch_update ==
    /\ opc = "update"
    /\ IF result_file.exists
         THEN /\ rebound' = (stats_data = EmptyStats)
              /\ opc' = "write"
         ELSE /\ opc' = "down"
              /\ UNCHANGED rebound
    /\ UNCHANGED <<cvars, container, stop_event, test_success, mvars>>

\* the dict the coordinator's name stats_data denotes
CoordinatorStats == IF rebound THEN ZeroStats ELSE stats_data

\* json.dump(result_data, f): the record with resource_usage as the dict is now
with_usage(file, usage) ==
    [file EXCEPT !.resource_usage =
        [present |-> TRUE, client |-> usage.client, server |-> usage.server]]

orch_write ==
    /\ opc = "write"
    /\ result_file' = with_usage(result_file, CoordinatorStats)
    /\ opc' = "down"
    /\ UNCHANGED <<lib, env, now, cpc, server_url, concurrency, duration,
                   latencies, failures, session, stop_time, wpc, wstart, wlat,
                   wfail, metrics, issued, signals>>
    /\ UNCHANGED <<container, stop_event, rebound, test_success, mvars>>

\* subprocess.run(["docker-compose", "down"]); return test_success, stats_data
orch_down ==
    /\ opc = "down"
    /\ container' = "removed"
    /\ opc' = "returned"
    /\ UNCHANGED <<cvars, stop_event, rebound, test_success, mvars>>

(* --------------------------- specification ----------------------------- *)
Envs == [ SERVER_URL : {Unset, GivenUrl},
          CONCURRENCY : 0..MaxConc,
          WARMUP_DURATION : 0..MaxDur,
          TEST_DURATION : 0..MaxDur ]

ClientIdle ==
    /\ now = 0
    /\ cpc = "start"
    /\ server_url = Unset
    /\ concurrency = 0
    /\ duration = 0
    /\ latencies = <<>>
    /\ failures = 0
    /\ session = 0
    /\ stop_time = 0
    /\ wpc = [w \in Workers |-> "off"]
    /\ wstart = [w \in Workers |-> 0]
    /\ wlat = [w \in Workers |-> <<>>]
    /\ wfail = [w \in Workers |-> 0]
    /\ metrics = NoMetrics
    /\ result_file = NoFile
    /\ issued = 0
    /\ signals = <<>>

\* no coordinator and no sampler
OrchIdle ==
    /\ opc = "off"
    /\ mpc = "off"
    /\ stop_event = FALSE
    /\ stats_data = EmptyStats
    /\ rebound = FALSE
    /\ test_success = FALSE
    /\ client_container_name = NoName
    /\ client_stats = <<>>
    /\ server_stats = <<>>
    /\ consecutive_failures = 0

\* the client program run on its own, under any environment
Init ==
    /\ lib \in Libs
    /\ env \in Envs
    /\ ClientIdle
    /\ container = "up"
    /\ OrchIdle

ClientNext ==
    \/ main_start
    \/ run_start
    \/ \E w \in Workers : worker_loop(w)
    \/ \E w \in Workers, success \in BOOLEAN : make_request(w, success)
    \/ \E w \in Workers : run_as_completed(w)
    \/ \E n \in 0..MaxConc : run_gather(n)
    \/ run_return
    \/ main_reset
    \/ \E delivered \in BOOLEAN : main_signal_start(delivered)
    \/ \E delivered \in BOOLEAN : main_signal_stop(delivered)
    \/ main_get_metrics
    \/ main_save
    \/ Tick

Next == ClientNext

Spec == Init /\ [][Next]_vars

\* run_single_test(library, concurrency): the coordinator, the sampler thread
\* and the client program in its container
OrchEnvs == {e \in Envs : /\ e.SERVER_URL = GivenUrl
                          /\ e.CONCURRENCY = 1
                          /\ e.WARMUP_DURATION = 1
                          /\ e.TEST_DURATION = 1}

InitOrch ==
    /\ lib \in Libs
    /\ env \in OrchEnvs
    /\ ClientIdle
    /\ container = "none"
    /\ opc = "start"
    /\ mpc = "idle"
    /\ stop_event = FALSE
    /\ stats_data = EmptyStats
    /\ rebound = FALSE
    /\ test_success = FALSE
    /\ client_container_name = NoName
    /\ client_stats = <<>>
    /\ server_stats = <<>>
    /\ consecutive_failures = 0

\* all sequences over S of length at most n
BSeq(S, n) == UNION {[1..k -> S] : k \in 0..n}

\* get_metrics on its own: the client after the measured run, with any
\* latencies and failures; successes require a positive duration and concurrency
MetricsEnvs == {e \in Envs : /\ e.SERVER_URL = GivenUrl
                             /\ e.WARMUP_DURATION = e.TEST_DURATION}

\* n distinct latencies in descending order: n - 1, ..., 1, 0
Ramp(n) == [i \in 1..n |-> n - i]

InitMetrics ==
    /\ lib \in Libs
    /\ env \in MetricsEnvs
    /\ \/ /\ latencies \in BSeq(0..MaxLat, MaxLen)
          /\ failures \in 0..MaxFail
       \/ /\ latencies \in {Ramp(n) : n \in 1..MaxRamp}
          /\ failures = 0
    /\ latencies # <<>> => env.TEST_DURATION > 0 /\ env.CONCURRENCY > 0
    /\ now = 0
    /\ cpc = "summarize"
    /\ server_url = env.SERVER_URL
    /\ concurrency = env.CONCURRENCY
    /\ duration = env.TEST_DURATION
    /\ session = IF lib = "requests" THEN 1 ELSE 2
    /\ stop_time = 0
    /\ wpc = [w \in Workers |-> "off"]
    /\ wstart = [w \in Workers |-> 0]
    /\ wlat = [w \in Workers |-> <<>>]
    /\ wfail = [w \in Workers |-> 0]
    /\ metrics = NoMetrics
    /\ result_file = NoFile
    /\ issued = Len(latencies) + failures
    /\ signals = << [name |-> "start-collection", delivered |-> TRUE],
                    [name |-> "stop-collection", delivered |-> TRUE] >>
    /\ container = "up"
    /\ OrchIdle

NextMetrics == main_get_metrics \/ main_save

SpecMetrics == InitMetrics /\ [][NextMetrics]_vars

\* calculate_averages on its own: the sampler after its polling loop, with
\* any sample lists
InitAvg ==
    /\ lib \in Libs
    /\ env \in OrchEnvs
    /\ ClientIdle
    /\ container = "none"
    /\ opc = "join"
    /\ mpc = "averages"
    /\ stop_event = TRUE
    /\ stats_data = EmptyStats
    /\ rebound = FALSE
    /\ test_success = FALSE
    /\ client_stats \in BSeq(Readings, MaxStats)
    /\ server_stats \in BSeq(Readings, MaxStats)
    /\ client_container_name = IF client_stats = <<>> THEN NoName ELSE ClientName
    /\ consecutive_failures = 0

NextAvg == monitor_publish_client \/ monitor_publish_server

SpecAvg == InitAvg /\ [][NextAvg]_vars

\* run() on its own: the client about to make the measured run, after a
\* warmup run and the start signal
RunEnvs == {e \in Envs : /\ e.SERVER_URL = GivenUrl
                         /\ e.WARMUP_DURATION = e.TEST_DURATION}

InitRun ==
    /\ lib \in Libs
    /\ env \in RunEnvs
    /\ now = 0
    /\ cpc = "test_call"
    /\ server_url = env.SERVER_URL
    /\ concurrency = env.CONCURRENCY
    /\ duration = env.TEST_DURATION
    /\ latencies = <<>>
    /\ failures = 0
    /\ session = 1
    /\ stop_time = 0
    /\ wpc = [w \in Workers |-> "off"]
    /\ wstart = [w \in Workers |-> 0]
    /\ wlat = [w \in Workers |-> <<>>]
    /\ wfail = [w \in Workers |-> 0]
    /\ metrics = NoMetrics
    /\ result_file = NoFile
    /\ issued = 0
    /\ signals = << [name |-> "start-collection", delivered |-> TRUE] >>
    /\ container = "up"
    /\ OrchIdle

NextRun ==
    \/ run_start
    \/ \E w \in Workers : worker_loop(w)
    \/ \E w \in Workers, success \in BOOLEAN : make_request(w, success)
    \/ \E w \in Workers : run_as_completed(w)
    \/ \E n \in 0..MaxConc : run_gather(n)
    \/ run_return
    \/ Tick

\* the clock advances, a request in flight returns (the timeout of 10 s at the
\* latest), and a thread or coroutine that can take its next step is scheduled
RunFairness ==
    /\ WF_vars(Tick)
    /\ \A w \in Workers :
          /\ WF_vars(worker_loop(w))
          /\ WF_vars(\E success \in BOOLEAN : make_request(w, success))
          /\ WF_vars(run_as_completed(w))
    /\ WF_vars(\E n \in 0..MaxConc : run_gather(n))
    /\ WF_vars(run_return)

SpecRun == InitRun /\ [][NextRun]_vars /\ RunFairness

\* the measured phase on its own: the client after a warmup run that made
\* requests, with any result of that run in its accumulators
WarmEnvs == {e \in Envs : /\ e.SERVER_URL = GivenUrl
                          /\ e.CONCURRENCY >= 1
                          /\ e.WARMUP_DURATION = 1}

InitMeasured ==
    /\ lib \in Libs
    /\ env \in WarmEnvs
    /\ now = 0
    /\ cpc = "reset"
    /\ server_url = env.SERVER_URL
    /\ concurrency = env.CONCURRENCY
    /\ duration = env.WARMUP_DURATION
    /\ latencies \in BSeq({0, MsPerSecond}, MaxReq)
    /\ failures \in 0..MaxReq
    /\ issued = Len(latencies) + failures
    /\ issued \in 1..MaxReq
    /\ session = 1
    /\ stop_time = 0
    /\ wpc = [w \in Workers |-> "off"]
    /\ wstart = [w \in Workers |-> 0]
    /\ wlat = [w \in Workers |-> <<>>]
    /\ wfail = [w \in Workers |-> 0]
    /\ metrics = NoMetrics
    /\ result_file = NoFile
    /\ signals = <<>>
    /\ container = "up"
    /\ OrchIdle

NextMeasured ==
    \/ main_reset
    \/ \E delivered \in BOOLEAN : main_signal_start(delivered)
    \/ NextRun
    \/ \E delivered \in BOOLEAN : main_signal_stop(delivered)
    \/ main_get_metrics
    \/ main_save

SpecMeasured == InitMeasured /\ [][NextMeasured]_vars

MonitorNext ==
    \/ \E found \in BOOLEAN : monitor_resolve_wait(found)
    \/ monitor_wait_expired
    \/ \E found \in BOOLEAN, client_stat, server_stat \in PollReadings \cup {NoReading} :
          /\ WithinCaps(client_stat, server_stat, MaxSamples, MaxSamples, MaxStreak)
          /\ monitor_poll(found, client_stat, server_stat)
    \/ monitor_stopped
    \/ monitor_ceiling
    \/ monitor_publish_client
    \/ monitor_publish_server

\* the polling loop on its own: the sampler at the start of the loop, with
\* the client's container up, followed far enough for the failure threshold
\* and the minimum of client samples to be reached; the coordinator gives up
\* the load run and sets the stop signal at any moment
InitPoll ==
    /\ lib \in Libs
    /\ env \in OrchEnvs
    /\ ClientIdle
    /\ container = "up"
    /\ opc = "run_client"
    /\ mpc = "poll"
    /\ stop_event = FALSE
    /\ stats_data = EmptyStats
    /\ rebound = FALSE
    /\ test_success = FALSE
    /\ client_container_name \in {NoName, ClientName}
    /\ client_stats = <<>>
    /\ server_stats = <<>>
    /\ consecutive_failures = 0

NextPoll ==
    \/ \E found \in BOOLEAN, client_stat, server_stat \in PollReadings \cup {NoReading} :
          /\ WithinCaps(client_stat, server_stat, MinClientSamples + MaxSamples,
                        MaxSamples, max_consecutive_failures + MaxStreak)
          /\ monitor_poll(found, client_stat, server_stat)
    \/ monitor_stopped
    \/ monitor_ceiling
    \/ monitor_publish_client
    \/ monitor_publish_server
    \/ \E outcome \in {"timeout", "error"} : orch_run_client(outcome)
    \/ orch_set_stop

SpecPoll == InitPoll /\ [][NextPoll]_vars

\* monitor_containers on its own: the sampler thread from its start, with the
\* client's container up; the coordinator gives up the load run and sets the
\* stop signal at any moment, or never
InitSampler ==
    /\ lib \in Libs
    /\ env \in OrchEnvs
    /\ ClientIdle
    /\ container = "up"
    /\ opc = "run_client"
    /\ mpc = "resolve_wait"
    /\ stop_event = FALSE
    /\ stats_data = EmptyStats
    /\ rebound = FALSE
    /\ test_success = FALSE
    /\ client_container_name = NoName
    /\ client_stats = <<>>
    /\ server_stats = <<>>
    /\ consecutive_failures = 0

NextSampler ==
    \/ MonitorNext
    \/ \E outcome \in {"timeout", "error"} : orch_run_client(outcome)
    \/ orch_set_stop

\* the clock advances: the 30 s of the resolution wait and the ceiling of the
\* polling loop pass; the thread is scheduled: it sees the stop signal at the
\* next test of its loop condition and goes on to publish
SamplerFairness ==
    /\ WF_vars(monitor_wait_expired)
    /\ WF_vars(monitor_stopped)
    /\ WF_vars(monitor_ceiling)
    /\ WF_vars(monitor_publish_client)
    /\ WF_vars(monitor_publish_server)

SpecSampler == InitSampler /\ [][NextSampler]_vars /\ SamplerFairness

OrchNext ==
    \/ \E ok \in BOOLEAN : orch_start_server(ok)
    \/ orch_start_monitor
    \/ orch_compose_up
    \/ \E outcome \in {"ok", "timeout", "error"} : orch_run_client(outcome)
    \/ orch_set_stop
    \/ \E timed_out \in BOOLEAN : orch_join(timed_out)
    \/ orch_update
    \/ orch_write
    \/ orch_down

NextOrch == ClientNext \/ MonitorNext \/ OrchNext

SpecOrch == InitOrch /\ [][NextOrch]_vars

(* ------------------------------- claims -------------------------------- *)
\* the client's program is past run(): its accumulators hold the run's result
RunReturned == cpc \in {"reset", "signal_stop", "summarize", "save", "exit"}

\* C1: once run() has returned, len(latencies) + failures is the number of
\* requests issued since the accumulators were last reset: every worker's
\* result is merged exactly once.
C1_EveryResultMergedOnce ==
    RunReturned => Len(latencies) + failures = issued

\* two workers' results, successes and failures, merged after the measured run
C1_Witness ==
    /\ cpc = "signal_stop"
    /\ concurrency = 2
    /\ Len(latencies) >= 1
    /\ failures >= 1

\* C2: get_metrics returns None if and only if there is no successful
\* latency, whatever the failure count; with a success it returns a record.
C2_NoMetricsIffNoSuccess ==
    cpc \in {"save", "exit"} =>
        /\ (metrics = NoMetrics) <=> (Len(latencies) = 0)
        /\ Len(latencies) > 0 => metrics.kind = "Metrics"

\* no success and failures: None
C2_Witness ==
    /\ cpc = "save"
    /\ latencies = <<>>
    /\ failures = MaxFail
    /\ metrics = NoMetrics

\* the number of elements of lat that satisfy Below(_)
Count(lat, Below(_)) == Cardinality({i \in 1..Len(lat) : Below(lat[i])})

\* v is the element at (0-based) index k of lat sorted ascending
AtRank(lat, k, v) ==
    /\ \E i \in 1..Len(lat) : lat[i] = v
    /\ LET Less(x) == x < v
           LessEq(x) == x <= v
       IN Count(lat, Less) <= k /\ k < Count(lat, LessEq)

\* floor(pct/100 * n)
FloorPct(n, pct) == CHOOSE k \in 0..n : k * 100 <= n * pct /\ n * pct < (k + 1) * 100

\* C3: for N latencies, p50, p95 and p99 are the elements at indices
\* floor(0.50 N), floor(0.95 N) and floor(0.99 N) of the ascending-sorted
\* list; each index is in 0..N-1; for N = 1 all three are the single value.
C3_PercentileAtFloorIndex ==
    (cpc \in {"save", "exit"} /\ latencies # <<>>) =>
        LET N == Len(latencies) IN
        /\ \A pct \in {50, 95, 99} : FloorPct(N, pct) \in 0..(N - 1)
        /\ AtRank(latencies, FloorPct(N, 50), metrics.latency_p50_ms)
        /\ AtRank(latencies, FloorPct(N, 95), metrics.latency_p95_ms)
        /\ AtRank(latencies, FloorPct(N, 99), metrics.latency_p99_ms)
        /\ N = 1 => /\ metrics.latency_p50_ms = latencies[1]
                    /\ metrics.latency_p95_ms = latencies[1]
                    /\ metrics.latency_p99_ms = latencies[1]

\* an unsorted list long enough for p50, p95, p99 and the maximum to differ
C3_Witness ==
    /\ cpc = "save"
    /\ Len(latencies) = MaxRamp
    /\ latencies[1] > latencies[MaxRamp]
    /\ metrics.latency_p50_ms < metrics.latency_p95_ms
    /\ metrics.latency_p95_ms < metrics.latency_p99_ms
    /\ metrics.latency_p99_ms < metrics.latency_max_ms

\* the fraction f is the quotient n / d
IsQuotient(f, n, d) == d # 0 /\ f.den # 0 /\ f.num * d = n * f.den

\* C4: in every Metrics record total_requests = successful_requests +
\* failed_requests, error_rate = 100 * failed_requests / total_requests and
\* throughput = total_requests / the configured duration of the measured phase.
C4_MetricsArithmetic ==
    (cpc \in {"save", "exit"} /\ metrics # NoMetrics) =>
        /\ metrics.successful_requests = Len(latencies)
        /\ metrics.failed_requests = failures
        /\ metrics.total_requests =
              metrics.successful_requests + metrics.failed_requests
        /\ IsQuotient(metrics.error_rate, 100 * metrics.failed_requests,
                      metrics.total_requests)
        /\ IsQuotient(metrics.throughput, metrics.total_requests,
                      env.TEST_DURATION)

\* metrics of a measured run with a failure, after a warmup of another duration
C4_Witness ==
    /\ cpc = "save"
    /\ metrics # NoMetrics
    /\ env.WARMUP_DURATION # env.TEST_DURATION
    /\ metrics.failed_requests >= 1
    /\ metrics.total_requests = 2

\* C5: when every request of the measured phase fails, a record for the
\* (library, concurrency) pair is still persisted, with the resource
\* summaries: the run never finishes having written nothing.
C5_RecordEmittedWithoutSuccess ==
    ( /\ opc = "returned"
      /\ test_success
      /\ cpc = "exit"
      /\ latencies = <<>>
      /\ failures > 0
      /\ mpc = "done" ) =>
        /\ result_file.exists
        /\ result_file.resource_usage.present

\* the summary a target without samples gets
AllZero(summary) ==
    /\ summary.cpu_percent_avg.num = 0
    /\ summary.memory_used_mb_avg.num = 0
    /\ summary.memory_total_mb_avg.num = 0
    /\ summary.memory_percent_avg.num = 0

\* C6: while the client target is never resolved, monitor_containers raises
\* nothing and publishes an all-zero client summary, and the coordinator can
\* always take its next step, up to its return.
C6_UnresolvedClientDegrades ==
    /\ mpc # "raised"
    /\ client_container_name = NoName =>
          /\ client_stats = <<>>
          /\ mpc \in {"publish_server", "done"} =>
                stats_data.client.set /\ AllZero(stats_data.client)
    /\ (client_container_name = NoName /\ opc \notin {"returned", "run_client"})
          => ENABLED OrchNext
    /\ (client_container_name = NoName /\ opc = "run_client")
          => ENABLED (OrchNext \/ ClientNext)

\* the client ran to its end, the sampler never found it and published, and
\* run_single_test returned
C6_Witness ==
    /\ opc = "returned"
    /\ mpc = "done"
    /\ cpc = "exit"
    /\ client_container_name = NoName
    /\ server_stats # <<>>
    /\ AllZero(stats_data.client)

SignalNames == [i \in 1..Len(signals) |-> signals[i].name]

\* C7: the client goes through Idle, Warmup, SignalStart, Measuring,
\* SignalStop, Summarized in this order: the start signal is attempted once,
\* after the warmup workers returned and before the first measured request;
\* the stop signal once, after the measured workers returned; metrics are
\* computed and persisted only after the stop signal.
C7_PhaseOrder ==
    /\ cpc \in {"start", "warmup_call", "warmup", "reset", "signal_start"} =>
          /\ SignalNames = <<>>
          /\ metrics = NoMetrics /\ result_file = NoFile
    /\ cpc \in {"test_call", "test", "signal_stop"} =>
          /\ SignalNames = <<"start-collection">>
          /\ metrics = NoMetrics /\ result_file = NoFile
    /\ cpc \in {"summarize", "save", "exit"} =>
          SignalNames = <<"start-collection", "stop-collection">>
    /\ cpc = "summarize" => metrics = NoMetrics
    /\ cpc \in {"summarize", "save"} => result_file = NoFile
    /\ cpc = "test_call" => issued = 0
    /\ Len(signals) = 2 => \A w \in Workers : wpc[w] = "off"

\* a run that went through every phase and persisted its metrics
C7_Witness ==
    /\ cpc = "exit"
    /\ result_file.exists
    /\ SignalNames = <<"start-collection", "stop-collection">>

\* C8: a failed start or stop notification never aborts the run: after the
\* start signal the measured run follows, after the stop signal the metrics
\* are summarized and persisted as they are when the signals succeed.
C8_SignalFailureSwallowed ==
    /\ Len(signals) = 1 => cpc \in {"test_call", "test", "signal_stop"}
    /\ Len(signals) = 2 => cpc \in {"summarize", "save", "exit"}
    /\ cpc = "exit" =>
          result_file =
              IF latencies = <<>> THEN NoFile
              ELSE [ exists |-> TRUE,
                     data |-> get_metrics(lib, latencies, failures,
                                          env.CONCURRENCY, env.TEST_DURATION),
                     resource_usage |-> NoUsage ]

\* both notifications failed and the metrics were persisted
C8_Witness ==
    /\ cpc = "exit"
    /\ Len(signals) = 2
    /\ ~signals[1].delivered
    /\ ~signals[2].delivered
    /\ issued > 0
    /\ result_file.exists

RECURSIVE SumFromEnd(_, _, _)
SumFromEnd(stats_list, field, n) ==
    IF n = 0 THEN 0 ELSE stats_list[n][field] + SumFromEnd(stats_list, field, n - 1)

\* summary is the field-wise arithmetic mean of stats_list, or all zero
IsMean(summary, stats_list) ==
    /\ summary.set
    /\ IF stats_list = <<>>
         THEN AllZero(summary)
         ELSE LET n == Len(stats_list)
                  Mean(f, field) ==
                      IsQuotient(f, SumFromEnd(stats_list, field, n), n)
              IN /\ Mean(summary.cpu_percent_avg, "cpu_percent")
                 /\ Mean(summary.memory_used_mb_avg, "memory_used_mb")
                 /\ Mean(summary.memory_total_mb_avg, "memory_total_mb")
                 /\ Mean(summary.memory_percent_avg, "memory_percent")

\* C9: calculate_averages gives four zeros for an empty sample list and the
\* arithmetic mean of each field for a non-empty one, and never fails.
C9_AveragesAreMeans ==
    /\ mpc # "raised"
    /\ mpc \in {"publish_server", "done"} => IsMean(stats_data.client, client_stats)
    /\ mpc = "done" => IsMean(stats_data.server, server_stats)

\* cpu samples 10 and 20 average to 15; the server has no sample
C9_Witness ==
    /\ mpc = "done"
    /\ Len(client_stats) = 2
    /\ client_stats[1].cpu_percent = 10
    /\ client_stats[2].cpu_percent = 20
    /\ IsQuotient(stats_data.client.cpu_percent_avg, 15, 1)
    /\ server_stats = <<>>
    /\ AllZero(stats_data.server)

InvalidConfig ==
    \/ env.SERVER_URL = Unset
    \/ env.CONCURRENCY <= 0
    \/ env.WARMUP_DURATION <= 0
    \/ env.TEST_DURATION <= 0

\* C10: under a non-positive concurrency or duration or a missing URL no
\* worker is launched, no request is issued and no metrics are reported.
C10_InvalidConfigRejected ==
    InvalidConfig =>
        /\ \A w \in Workers : wpc[w] = "off"
        /\ issued = 0
        /\ metrics = NoMetrics
        /\ result_file = NoFile

\* C11: get_metrics leaves the latency list, its order and the failure count
\* as they were, and a second call, on the state the first call left, returns
\* the Metrics the first call returned.
C11_GetMetricsIdempotent ==
    [][(cpc = "summarize" /\ cpc' \in {"save", "crashed"}) =>
          /\ latencies' = latencies
          /\ failures' = failures
          /\ metrics' = get_metrics(lib', latencies', failures',
                                    concurrency', duration')]_vars

\* metrics were computed from an unsorted list and a failure count
C11_Witness ==
    /\ cpc = "save"
    /\ metrics # NoMetrics
    /\ Len(latencies) >= 2
    /\ latencies[1] > latencies[2]
    /\ failures > 0

\* C12: the deadline of a run is set once, when run() starts, to the clock
\* plus the duration, and stays as it is until run() returns; every worker
\* tests the clock against it, and a worker begins a request only when the
\* clock it read is before the deadline; a request in flight is folded into
\* the worker's result whenever it returns, also after the deadline.
C12_SharedDeadline ==
    [][ /\ (cpc \in {"warmup_call", "test_call"} /\ InRun')
              => stop_time' = now + duration
        /\ (InRun /\ InRun') => stop_time' = stop_time
        /\ \A w \in Workers :
              /\ (InRun /\ wpc[w] = "loop" /\ wpc'[w] = "request")
                    => now < stop_time /\ wstart'[w] = now
              /\ (InRun /\ wpc[w] = "loop" /\ now >= stop_time /\ wpc'[w] # "loop")
                    => wpc'[w] = "returned"
              /\ (InRun /\ wpc[w] = "request" /\ wpc'[w] # "request" /\ InRun')
                    => /\ wpc'[w] = "loop"
                       /\ Len(wlat'[w]) + wfail'[w] = Len(wlat[w]) + wfail[w] + 1
      ]_vars

\* two workers run against the deadline; one has folded a request that began
\* before the deadline and returned after it (its latency exceeds the duration)
C12_Witness ==
    /\ cpc = "test"
    /\ concurrency = 2
    /\ now > stop_time
    /\ \E w \in Workers :
          /\ wlat[w] # <<>>
          /\ wlat[w][Len(wlat[w])] > duration * MsPerSecond
    /\ \E w \in Workers : wpc[w] = "returned" /\ wlat[w] = <<>> /\ wfail[w] = 0

\* a worker that was launched and has not returned
Running(w) == InRun /\ wpc[w] \in {"loop", "request"}

\* every worker run() launched has returned
AllReturned == \A w \in Launched : wpc[w] \in {"returned", "merged"}

\* C13: with the clock advancing and every request returning, a run reaches
\* the point where every launched worker has returned, each only by finding
\* the clock at or after the deadline in its loop condition; run() then
\* eventually returns, and it returns only when every worker has returned,
\* none with a request in flight.
C13_RunTerminates ==
    /\ (cpc = "test") ~> (cpc = "test" /\ AllReturned)
    /\ (cpc = "test" /\ AllReturned) ~> (cpc = "signal_stop")
    /\ [][ /\ \A w \in Workers :
                (wpc'[w] = "returned" /\ wpc[w] # "returned")
                   => wpc[w] = "loop" /\ now >= stop_time
           /\ (InRun /\ ~InRun') => AllReturned
         ]_vars

\* run() returned after two workers made requests, one returning after the
\* deadline
C13_Witness ==
    /\ cpc = "signal_stop"
    /\ concurrency = 2
    /\ issued = MaxReq
    /\ \E i \in 1..Len(latencies) : latencies[i] > duration * MsPerSecond

\* C14: while a worker of the run is still running, the client's latencies
\* and failures, empty when run() was called, are not modified: they hold
\* nothing of this run until all workers have returned.
C14_SinglePointJoin ==
    (InRun /\ \E w \in Workers : Running(w)) =>
        /\ latencies = <<>>
        /\ failures = 0

\* the workers with a request in flight
InFlight == {w \in Workers : wpc[w] = "request"}

\* the requests the workers of the run have folded
Folded == SumAll([w \in Workers |-> Len(wlat[w]) + wfail[w]], MaxConc)

\* C15: during a run every request begun and not yet folded is the one
\* request of a worker that is waiting for it, so the requests in flight are
\* at most one per launched worker, at most concurrency, and concurrency is
\* at most the size of the connection pool.
C15_OneInFlightPerWorker ==
    InRun =>
        /\ InFlight \subseteq Launched
        /\ issued = Folded + Cardinality(InFlight)
        /\ Cardinality(InFlight) <= concurrency
        /\ concurrency <= pool_maxsize

\* both workers of the measured run have a request in flight
C15_Witness ==
    /\ cpc = "test"
    /\ concurrency = 2
    /\ InFlight = {1, 2}

\* the accumulators of the workers other than w stay as they are
OthersKeep(w) ==
    \A v \in Workers \ {w} : wlat'[v] = wlat[v] /\ wfail'[v] = wfail[v]

\* C16: a request that returns with success appends its latency, and only
\* it, to the worker's list and leaves the failure counter; one that fails
\* adds one to the failure counter and leaves the list; either way the worker
\* is back at its loop condition, and a worker's accumulators change in no
\* other step of a run.
C16_FoldFrame ==
    [][\A w \in Workers :
          /\ make_request(w, TRUE) =>
                /\ wlat'[w] = Append(wlat[w], (now - wstart[w]) * MsPerSecond)
                /\ wfail'[w] = wfail[w]
                /\ wpc'[w] = "loop"
                /\ OthersKeep(w)
          /\ make_request(w, FALSE) =>
                /\ wlat'[w] = wlat[w]
                /\ wfail'[w] = wfail[w] + 1
                /\ wpc'[w] = "loop"
                /\ OthersKeep(w)
          /\ (InRun /\ InRun' /\ (wlat'[w] # wlat[w] \/ wfail'[w] # wfail[w]))
                => wpc[w] = "request"
      ]_vars

\* a worker that folded a success and a failure and is back in its loop
C16_Witness ==
    /\ cpc = "test"
    /\ \E w \in Workers :
          /\ wpc[w] = "loop"
          /\ Len(wlat[w]) = 1
          /\ wfail[w] = 1

\* the successes and the failures the workers of the run have folded
RunSuccesses == SumAll([w \in Workers |-> Len(wlat[w])], MaxConc)
RunFailures == SumAll(wfail, MaxConc)

\* C17: whatever the warmup run left in the accumulators, when the measured
\* run returns latencies and failures hold the successes and failures of its
\* workers alone; they stay so up to the summary, and the persisted record
\* reports them as successful_requests and failed_requests.
C17_WarmupDiscarded ==
    /\ [][ /\ (cpc = "test" /\ cpc' = "signal_stop") =>
                /\ Len(latencies') = RunSuccesses
                /\ failures' = RunFailures
           /\ (cpc \in {"signal_stop", "summarize", "save"}) =>
                latencies' = latencies /\ failures' = failures
         ]_vars
    /\ [](cpc \in {"save", "exit"} /\ metrics # NoMetrics =>
            /\ metrics.successful_requests = Len(latencies)
            /\ metrics.failed_requests = failures)
    /\ [](cpc = "exit" /\ result_file.exists => result_file.data = metrics)

\* after a warmup run that made requests, a record of a measured run with
\* one success and one failure
C17_Witness ==
    /\ cpc = "exit"
    /\ result_file.exists
    /\ result_file.data.successful_requests = 1
    /\ result_file.data.failed_requests = 1

\* C18: from the warmup run to the end of the measured run the requests go
\* through one connection layer, the first that was created: none is created
\* between the two runs or by the measured run.
C18_SameSessionLayer ==
    cpc \in {"warmup", "reset", "signal_start", "test_call", "test"} =>
        session = 1

\* the record holds resource data
HasUsage(file) == file.exists /\ file.resource_usage.present

\* C19: whatever the outcome of the load run, run_single_test sets the stop
\* signal and then joins the sampler, a join that returns also when the
\* sampler has not finished; the stop signal is set only once docker-compose
\* up has returned or raised, and resource data is written to the record
\* only after the join.
C19_StopThenJoin ==
    /\ [](stop_event => opc \in {"join", "update", "write", "down", "returned"})
    /\ []((opc \in {"update", "write", "down", "returned"} /\ container # "none")
            => stop_event)
    /\ [](opc = "join" => ENABLED (\E timed_out \in BOOLEAN : orch_join(timed_out)))
    /\ [](HasUsage(result_file) => opc \in {"down", "returned"})
    /\ [][ /\ (stop_event' /\ ~stop_event) => opc = "set_stop" /\ opc' = "join"
           /\ (opc = "run_client" /\ opc' # "run_client") => opc' = "set_stop"
           /\ (opc' = "update" /\ opc # "update") => opc = "join" /\ stop_event
           /\ (HasUsage(result_file') /\ ~HasUsage(result_file)) => opc = "write"
         ]_vars

\* the load run timed out or failed; the stop signal was set, the sampler
\* finished and was joined, and run_single_test returned
C19_Witness ==
    /\ opc = "returned"
    /\ cpc = "abandoned"
    /\ ~test_success
    /\ stop_event
    /\ mpc = "done"

\* C20: when the join timed out and the record was written while the sampler
\* had not finished, the record's summaries are the means of the samples the
\* sampler had captured, not zeros in place of captured samples.
C20_AbandonedSamplesUsed ==
    (HasUsage(result_file) /\ mpc \notin {"done", "raised"}) =>
        /\ IsMean(result_file.resource_usage.client, client_stats)
        /\ IsMean(result_file.resource_usage.server, server_stats)

\* C21: the polling loop is left only for the statement after it, and only
\* when the stop signal is set, when the ceiling has passed, or at the end of
\* a pass that leaves at least max_consecutive_failures failed client polls
\* in a row and more than the minimum of client samples; a client poll that
\* gives a sample sets the count of failures in a row to zero.
C21_LoopExitReasons ==
    [][ /\ (mpc = "poll" /\ mpc' # "poll") =>
              /\ mpc' = "averages"
              /\ \/ stop_event
                 \/ monitor_ceiling
                 \/ /\ consecutive_failures' >= max_consecutive_failures
                    /\ Len(client_stats') > MinClientSamples
        /\ (mpc = "poll" /\ client_stats' # client_stats) =>
              /\ \E r \in PollReadings : client_stats' = Append(client_stats, r)
              /\ consecutive_failures' = 0
        /\ (mpc = "poll" /\ consecutive_failures' # consecutive_failures) =>
              \/ consecutive_failures' = 0
              \/ consecutive_failures' = consecutive_failures + 1
      ]_vars

\* the loop was left by the threshold: no stop signal, max_consecutive_failures
\* failed polls in a row after one sample more than the minimum
C21_Witness ==
    /\ mpc = "averages"
    /\ ~stop_event
    /\ consecutive_failures = max_consecutive_failures
    /\ Len(client_stats) = MinClientSamples + 1

\* one pass of the polling loop, with any outcome of the resolution attempt
Pass(client_stat, server_stat) ==
    \E found \in BOOLEAN : monitor_poll(found, client_stat, server_stat)

\* C22: a pass of the polling loop in which a target's poll fails leaves
\* that target's samples as they are, and one in which it succeeds appends
\* the reading, and only it; the pass never raises and ends in the loop or,
\* by the threshold, after it; and while the loop runs a pass that polls
\* both targets can always be taken.
C22_FailedPollNotFatal ==
    /\ [][\A client_stat, server_stat \in PollReadings \cup {NoReading} :
            Pass(client_stat, server_stat) =>
              /\ client_stats' = IF client_stat = NoReading THEN client_stats
                                 ELSE Append(client_stats, client_stat)
              /\ server_stats' = IF server_stat = NoReading THEN server_stats
                                 ELSE Append(server_stats, server_stat)
              /\ mpc' \in {"poll", "averages"}
              /\ mpc' = "averages" =>
                    /\ consecutive_failures' >= max_consecutive_failures
                    /\ Len(client_stats') > MinClientSamples
         ]_vars
    /\ [](mpc # "raised")
    /\ []((mpc = "poll" /\ ~stop_event) =>
            ENABLED (\E client_stat, server_stat \in PollReadings \cup {NoReading} :
                        Pass(client_stat, server_stat)))

\* two failed client polls after a client sample: the sample is kept and the
\* loop goes on
C22_Witness ==
    /\ mpc = "poll"
    /\ ~stop_event
    /\ consecutive_failures = 2
    /\ Len(client_stats) = 1
    /\ Len(server_stats) = 1

\* the sampler is in one of its two loops and will make another pass
Sampling ==
    \/ mpc = "resolve_wait"
    \/ mpc = "poll" /\ ~stop_event

\* C23: while the client target is unresolved, in the resolution wait as in
\* the polling loop, the sampler's next pass polls the server: with the
\* server up it takes a server sample.
C23_ServerSampledWhileUnresolved ==
    (client_container_name = NoName /\ Sampling /\ Len(server_stats) < MaxSamples)
        => ENABLED (MonitorNext /\ server_stats' # server_stats)

\* C24: every sample the sampler holds, all of which enter the summaries,
\* was taken after the warmup: while the load run is followed, samples exist
\* only once the client has made its start signal.
C24_SamplingStartsAfterWarmup ==
    (cpc # "abandoned" /\ (client_stats # <<>> \/ server_stats # <<>>))
        => /\ cpc \in {"test_call", "test", "signal_stop", "summarize", "save",
                        "exit", "crashed"}
           /\ SignalNames # <<>>

\* the sampler thread has started and has not returned
SamplerRunning == mpc \in {"resolve_wait", "poll", "averages", "publish_server"}

\* C25: with the clock advancing and every call returning, the sampler
\* always returns, with the stop signal set at any moment or never, and it
\* returns after publishing the summaries of both targets; once the stop
\* signal is set it makes no further pass of the polling loop.
C25_SamplerTerminates ==
    /\ SamplerRunning ~> (mpc = "done")
    /\ [](mpc = "done" => stats_data.client.set /\ stats_data.server.set)
    /\ [][ /\ (stop_event /\ mpc = "poll") =>
                /\ mpc' \in {"poll", "averages"}
                /\ client_stats' = client_stats
                /\ server_stats' = server_stats
           /\ mpc = "done" => mpc' = "done"
         ]_vars

\* the sampler returned by the ceiling, with no stop signal, after it had
\* found the client and sampled both targets
C25_Witness ==
    /\ mpc = "done"
    /\ ~stop_event
    /\ client_stats # <<>>
    /\ server_stats # <<>>
    /\ stats_data.client.set
    /\ stats_data.server.set

\* C26: the resource_usage of a record always holds a client summary and a
\* server summary, however the coordinator's steps and the sampler's are
\* interleaved.
C26_BothSummariesWritten ==
    HasUsage(result_file) =>
        /\ result_file.resource_usage.client.set
        /\ result_file.resource_usage.server.set

\* C27: in every Metrics record latency_min_ms <= latency_p50_ms <=
\* latency_p95_ms <= latency_p99_ms <= latency_max_ms, and latency_min_ms and
\* latency_max_ms are the smallest and the largest of the run's successful
\* latencies.
C27_LatencyOrder ==
    (cpc \in {"save", "exit"} /\ metrics \notin {NoMetrics, Raised}) =>
        /\ metrics.latency_min_ms <= metrics.latency_p50_ms
        /\ metrics.latency_p50_ms <= metrics.latency_p95_ms
        /\ metrics.latency_p95_ms <= metrics.latency_p99_ms
        /\ metrics.latency_p99_ms <= metrics.latency_max_ms
        /\ \E i \in 1..Len(latencies) : latencies[i] = metrics.latency_min_ms
        /\ \E i \in 1..Len(latencies) : latencies[i] = metrics.latency_max_ms
        /\ \A i \in 1..Len(latencies) :
              /\ metrics.latency_min_ms <= latencies[i]
              /\ latencies[i] <= metrics.latency_max_ms

\* a record computed from a list whose largest latency came first and whose
\* smallest came last, with a median strictly between the two
C27_Witness ==
    /\ cpc = "save"
    /\ metrics \notin {NoMetrics, Raised}
    /\ Len(latencies) >= 3
    /\ latencies[1] = metrics.latency_max_ms
    /\ latencies[Len(latencies)] = metrics.latency_min_ms
    /\ metrics.latency_min_ms < metrics.latency_p50_ms
    /\ metrics.latency_p50_ms < metrics.latency_max_ms
    /\ failures > 0

=============================================================================
